---- MODULE Spec2Model ----
(***************************************************************************)
(* TodoManager of google_drive_module.py: the to-do list that is derived   *)
(* from the APARTMENTS, MO_DATA and UT_DATA sheets, merged with the list   *)
(* kept in memory, edited through the dashboard, and saved to a JSON       *)
(* document in Google Drive with a local cache file.                       *)
(*                                                                         *)
(* Values.  A calendar date (datetime.date) is the day number within the   *)
(* year 2024, 1..366; DateOf(m, d) writes one down.  The ISO string of a   *)
(* date is the triple <<year, month, day>> of its zero-padded fields, so   *)
(* that comparing two ISO strings is comparing the triples field by field, *)
(* and the empty string is <<>>.  A sheet cell holding a date is the pair  *)
(* of the format it is written in and the date.  Python's None is None.    *)
(***************************************************************************)
EXTENDS Integers, Sequences, FiniteSets, TLC

VARIABLES
    todo_list,    \* self.todo_list: the active list, a sequence of items
    trash_bin,    \* self.trash_bin: the removed items
    is_dirty,     \* self.is_dirty
    file_id,      \* self.file_id: the cached Drive id of todo_list.json, or None
    drive_doc,    \* todo_list.json in Google Drive, or NoFile
    cache,        \* todo_list_cache.json on the local disk, or NoFile
    all_data,     \* sheet_manager.all_data: the loaded sheets
    hash_order,   \* iteration order of a two-element set of dates in this process
    nops,         \* number of calls so far that changed the manager or a file
    last,         \* the last such call: its name and its arguments
    pending       \* per session, the add_manual_item call that has passed the
                  \* duplicate test and has not appended its item yet

vars == <<todo_list, trash_bin, is_dirty, file_id, drive_doc, cache, all_data,
          hash_order, nops, last, pending>>

-----------------------------------------------------------------------------
(* Bounds of the model. *)

\* calls in one behaviour that change the manager or a file; a call that changes
\* nothing is a stuttering step
MaxOps == 4

-----------------------------------------------------------------------------
(* Python values. *)

None == <<"None">>
EmptyStr == <<>>
\* None where a datetime.date is expected
NoDate == -1
NoFile == [exists |-> FALSE]

\* x or '' (the right operand for a falsy left one)
OrEmpty(x) == IF x = None \/ x = EmptyStr THEN EmptyStr ELSE x

-----------------------------------------------------------------------------
(* datetime.date within 2024. *)

MonthLengths == <<31, 29, 31, 30, 31, 30, 31, 31, 30, 31, 30, 31>>

RECURSIVE DaysBeforeMonth(_)
DaysBeforeMonth(m) == IF m <= 1 THEN 0 ELSE DaysBeforeMonth(m - 1) + MonthLengths[m - 1]

DateOf(m, d) == DaysBeforeMonth(m) + d

Dates == 1..DaysBeforeMonth(13)

\* date.month and date.day, tabulated once
MonthOf == [n \in Dates |->
              CHOOSE m \in 1..12 : DaysBeforeMonth(m) < n /\ n <= DaysBeforeMonth(m + 1)]
DayOf == [n \in Dates |-> n - DaysBeforeMonth(MonthOf[n])]

\* date.isoformat(): 'YYYY-MM-DD'
IsoFormat(n) == <<2024, MonthOf[n], DayOf[n]>>

\* date.strftime('%d-%b')
DayMonth(n) == <<DayOf[n], MonthOf[n]>>

\* s < t for two strings of digits fields (str.__lt__): the first differing field
\* decides, and a proper prefix is smaller
RECURSIVE StrLess(_, _)
StrLess(s, t) ==
    IF t = <<>> THEN FALSE
    ELSE IF s = <<>> THEN TRUE
    ELSE IF Head(s) # Head(t) THEN Head(s) < Head(t)
    ELSE StrLess(Tail(s), Tail(t))

-----------------------------------------------------------------------------
(* Sheet cells.  A cell is a string; a string that datetime.strptime can     *)
(* read is written in exactly one format.                                   *)

DateCell(fmt, n) == [fmt |-> fmt, date |-> n]
EmptyCell == [fmt |-> "", date |-> 0]          \* ''
TextCell == [fmt |-> "text", date |-> 0]       \* a non-empty string that is no date
AbsentCell == [fmt |-> "absent", date |-> 0]   \* the row is too short to hold the cell

ParseError == 0

\* datetime.strptime(cell, fmt).date(), or ParseError for the ValueError
\* (IndexError for an absent cell) that the callers catch
Strptime(cell, fmt) == IF cell.fmt = fmt /\ cell.date \in Dates THEN cell.date ELSE ParseError

\* the first format of fmts that reads the cell
RECURSIVE ParseFirst(_, _)
ParseFirst(cell, fmts) ==
    IF fmts = <<>> THEN ParseError
    ELSE IF Strptime(cell, Head(fmts)) # ParseError THEN Strptime(cell, Head(fmts))
    ELSE ParseFirst(cell, Tail(fmts))

MoDateFormats == <<"%Y-%m-%d %H:%M", "%d/%m/%Y %H:%M:%S", "%Y-%m-%d", "%d/%m/%Y">>
UtDateFormats == <<"%d/%m/%Y %H:%M:%S", "%d-%m-%Y", "%d/%m/%Y">>
ContractFormat == "%d-%m-%Y"
CheckoutFormat == "%d.%m.%Y"

-----------------------------------------------------------------------------
(* The texts of the TYPE OF MONEY TASK and SPECIFIC MONEY TASK columns, and  *)
(* str.upper() and the substring test on them.                              *)

Texts == {"", "CHECK-IN", "Check-in", "CHECK-OUT", "Check-out done", "UTILITIES",
          "RENT COLLECT", "Rent collect June", "DEPOSIT"}

Upper(t) ==
    CASE t = "Check-in" -> "CHECK-IN"
      [] t = "Check-out done" -> "CHECK-OUT DONE"
      [] t = "Rent collect June" -> "RENT COLLECT JUNE"
      [] OTHER -> t

\* needle in text
Contains(needle, text) ==
    \/ needle = text
    \/ needle = "CHECK-OUT" /\ text = "CHECK-OUT DONE"
    \/ needle = "RENT COLLECT" /\ text = "RENT COLLECT JUNE"

-----------------------------------------------------------------------------
(* Items of the to-do list. *)

CheckboxNames == {"TELEGRAM", "EMAIL", "UT_DATA", "WRITE"}

\* a reason text: its wording, the '%d-%b' dates it quotes and the check-out mark
Reason(kind, due, paid, mark) == [kind |-> kind, due |-> due, paid |-> paid, mark |-> mark]

\* _create_todo_item; cid names the dict object held under 'checked'
_create_todo_item(ap_code, reason, due_date, realtor, status, cid) ==
    [ap_code |-> ap_code,
     reason |-> reason,
     due_date |-> due_date,
     realtor |-> realtor,
     status |-> status,
     manual |-> FALSE,
     checked |-> [c \in CheckboxNames |-> FALSE],
     checked_id |-> cid,
     check_time |-> None,
     note |-> "",
     last_transaction_date |-> None,
     last_transaction_type |-> "None",
     last_ut_reading_date |-> None]

\* item['ap_code'] + (item.get('due_date') or '')
ItemKey(item) == <<item.ap_code>> \o OrEmpty(item.due_date)

\* all(x['checked'].values())
AllChecked(item) == \A c \in CheckboxNames : item.checked[c]

\* the key of the lambda had it left out all(x['checked'].values())
SortKey_WithoutCompletion(x) == <<FALSE, x.due_date = None, OrEmpty(x.due_date)>>

\* the key of _sort_list's lambda
SortKey(x) == <<AllChecked(x), x.due_date = None, OrEmpty(x.due_date)>>

\* tuple comparison of two sort keys (False < True)
SortKeyLess(a, b) ==
    IF a[1] # b[1] THEN b[1]
    ELSE IF a[2] # b[2] THEN b[2]
    ELSE StrLess(a[3], b[3])

\* list.sort(key=...) is stable: x goes after every element whose key is not greater
InsertSorted(t, x) ==
    LET pos == Cardinality({i \in 1..Len(t) : ~SortKeyLess(SortKey(x), SortKey(t[i]))})
    IN SubSeq(t, 1, pos) \o <<x>> \o SubSeq(t, pos + 1, Len(t))

RECURSIVE _sort_list(_)
_sort_list(list) ==
    IF list = <<>> THEN <<>>
    ELSE InsertSorted(_sort_list(SubSeq(list, 1, Len(list) - 1)), list[Len(list)])

-----------------------------------------------------------------------------
(* The sheets.  all_data holds the names of the loaded sheets, the columns   *)
(* that the code looks up and that the headers lack, and the rows:          *)
(*   APARTMENTS  [code, start, end, realtor, checkout]                      *)
(*   MO_DATA     [code, date, type, specific]                               *)
(*   UT_DATA     [code, date]                                               *)
(* A row of the sheet is as long as its last cell that is not empty, so the *)
(* cells at the end of a row may be absent.                                 *)

ApRow(code, start, end, realtor, checkout) ==
    [code |-> code, start |-> start, end |-> end, realtor |-> realtor, checkout |-> checkout]
MoRow(code, date, type, specific) ==
    [code |-> code, date |-> date, type |-> type, specific |-> specific]
UtRow(code, date) == [code |-> code, date |-> date]

\* a text cell that the row is too short to hold
AbsentText == "<absent>"

RequiredSheets == {"APARTMENTS", "MO_DATA", "UT_DATA"}

MoColumns == {"APARTMENT CODE", "SUBMISSION DATE", "TYPE OF MONEY TASK", "SPECIFIC MONEY TASK"}
UtColumns == {"Apartment Code", "Date of Reading"}
ApColumns == {"AP CODE", "START", "END", "REALTOR", "CHECK_OUT"}

Sheets(ap_rows, mo_rows, ut_rows) ==
    [sheets |-> RequiredSheets, missing_columns |-> {},
     APARTMENTS |-> ap_rows, MO_DATA |-> mo_rows, UT_DATA |-> ut_rows]

\* len(row) > max(mo_code_col, mo_date_col, mo_type_col, mo_specific_task_col)
HoldsMoCells(row) ==
    /\ row.code # AbsentText
    /\ row.date # AbsentCell
    /\ row.type # AbsentText
    /\ row.specific # AbsentText

\* the events of one apartment in row order: rows that lack one of the four cells,
\* rows with an empty code and rows with a date that no format reads are skipped
ParsedTransactions(data, ap_code) ==
    LET Keep(row) == /\ HoldsMoCells(row)
                     /\ row.code # ""
                     /\ row.code = ap_code
                     /\ ParseFirst(row.date, MoDateFormats) # ParseError
        rows == SelectSeq(data.MO_DATA, Keep)
    IN [i \in 1..Len(rows) |->
          [date |-> ParseFirst(rows[i].date, MoDateFormats),
           type |-> rows[i].type,
           specific |-> rows[i].specific]]

\* list.sort(key=lambda x: x['date'], reverse=True): stable, latest first
InsertByDateDesc(t, x) ==
    LET pos == Cardinality({i \in 1..Len(t) : t[i].date >= x.date})
    IN SubSeq(t, 1, pos) \o <<x>> \o SubSeq(t, pos + 1, Len(t))

RECURSIVE SortByDateDesc(_)
SortByDateDesc(list) ==
    IF list = <<>> THEN <<>>
    ELSE InsertByDateDesc(SortByDateDesc(SubSeq(list, 1, Len(list) - 1)), list[Len(list)])

\* transactions[ap_code], <<>> when the apartment has no entry
Transactions(data, ap_code) == SortByDateDesc(ParsedTransactions(data, ap_code))

\* all_trans of add_manual_item, sorted: the events of the rows of the apartment
\* whose date is read; the SPECIFIC MONEY TASK cell is not looked at
AllTrans(data, ap_code) ==
    LET Keep(row) == /\ row.code = ap_code
                     /\ ParseFirst(row.date, MoDateFormats) # ParseError
        rows == SelectSeq(data.MO_DATA, Keep)
    IN SortByDateDesc([i \in 1..Len(rows) |->
                          [date |-> ParseFirst(rows[i].date, MoDateFormats),
                           type |-> rows[i].type,
                           specific |-> rows[i].specific]])

\* last_ut_dates.get(ap_code): the latest reading date of the apartment
LastUtDate(data, ap_code) ==
    LET read == {ParseFirst(data.UT_DATA[i].date, UtDateFormats) :
                    i \in {j \in 1..Len(data.UT_DATA) : data.UT_DATA[j].code = ap_code}}
                \ {ParseError}
    IN IF read = {} THEN NoDate ELSE CHOOSE d \in read : \A e \in read : e <= d

\* d.isoformat() if d else None
IsoOrNone(d) == IF d = NoDate THEN None ELSE IsoFormat(d)

-----------------------------------------------------------------------------
(* generate_list: the derivation of the tasks of one APARTMENTS row. *)

\* days a rent payment may precede and follow its due date
RentDaysBefore == 9
RentDaysAfter == 5

\* the in-range test of a date of the row
InWindow(d, start_date, end_date) == start_date <= d /\ d <= end_date

\* is_upcoming_checkout
IsUpcomingCheckout(row, start_date, end_date) ==
    LET checkout_date == Strptime(row.checkout, CheckoutFormat)
        end_date_obj == Strptime(row.end, ContractFormat)
    IN \/ checkout_date # ParseError /\ InWindow(checkout_date, start_date, end_date)
       \/ end_date_obj # ParseError /\ InWindow(end_date_obj, start_date, end_date)

\* all_due_dates_in_range: the dates from current_date to end_date on payment_day
RECURSIVE AllDueDatesInRange(_, _, _)
AllDueDatesInRange(current_date, end_date, payment_day) ==
    IF current_date > end_date THEN <<>>
    ELSE (IF DayOf[current_date] = payment_day THEN <<current_date>> ELSE <<>>)
         \o AllDueDatesInRange(current_date + 1, end_date, payment_day)

\* is_rent_payment had it tested the two texts without .upper()
IsRentPayment_CaseSensitive(trans) ==
    \/ Contains("CHECK-IN", trans.type)
    \/ Contains("RENT COLLECT", trans.specific)

\* is_rent_payment
IsRentPayment(trans) ==
    \/ Contains("CHECK-IN", Upper(trans.type))
    \/ Contains("RENT COLLECT", Upper(trans.specific))

\* the date test had its lower bound been strict
InRentWindow_StrictLowerBound(date, due_date) ==
    due_date - RentDaysBefore < date /\ date <= due_date + RentDaysAfter

\* the date test of the payment search
InRentWindow(date, due_date) ==
    due_date - RentDaysBefore <= date /\ date <= due_date + RentDaysAfter

\* payment_found_date: the date of the first matching event of the list, or None (NoDate)
PaymentFoundDate(trans_list, due_date) ==
    LET hits == {i \in 1..Len(trans_list) :
                    IsRentPayment(trans_list[i]) /\ InRentWindow(trans_list[i].date, due_date)}
    IN IF hits = {} THEN NoDate
       ELSE trans_list[CHOOSE i \in hits : \A j \in hits : i <= j].date

\* the three context fields every derived item carries
WithContext(item, trans_list, last_ut_date) ==
    [item EXCEPT
       !.last_transaction_date = IF trans_list = <<>> THEN None ELSE IsoFormat(trans_list[1].date),
       !.last_transaction_type = IF trans_list = <<>> THEN "None" ELSE trans_list[1].type,
       !.last_ut_reading_date = IsoOrNone(last_ut_date)]

\* the rent item of one due date
RentItem(row, due_date, trans_list, last_ut_date, upcoming) ==
    LET payment_found_date == PaymentFoundDate(trans_list, due_date)
        item ==
          IF payment_found_date # NoDate
          THEN _create_todo_item(row.code,
                   Reason("Rent due, Paid on", DayMonth(due_date), DayMonth(payment_found_date), FALSE),
                   IsoFormat(due_date), row.realtor, "Paid", 0)
          ELSE _create_todo_item(row.code,
                   Reason("Rent due on (UNPAID)", DayMonth(due_date), <<>>, upcoming),
                   IsoFormat(due_date), row.realtor, "Unpaid", 0)
    IN WithContext(item, trans_list, last_ut_date)

\* part A: the rent items of the row, none when START does not parse
RentItems(row, start_date, end_date, trans_list, last_ut_date) ==
    LET contract_start_date == Strptime(row.start, ContractFormat)
        dues == AllDueDatesInRange(start_date, end_date, DayOf[contract_start_date])
    IN IF contract_start_date = ParseError THEN <<>>
       ELSE [i \in 1..Len(dues) |->
               RentItem(row, dues[i], trans_list, last_ut_date,
                        IsUpcomingCheckout(row, start_date, end_date))]

\* set(checkout_dates_to_check) had the two strptime calls shared one try block: a
\* END that is not read leaves the list empty
CheckoutDatesToCheck_OneTryBlock(row, order) ==
    LET e == Strptime(row.end, ContractFormat)
        c == Strptime(row.checkout, CheckoutFormat)
    IN IF e = ParseError THEN <<>>
       ELSE IF c = ParseError \/ c = e THEN <<e>>
       ELSE IF order = "end_first" THEN <<e, c>> ELSE <<c, e>>

\* set(checkout_dates_to_check) in the order this process iterates it: END is put
\* in first, CHECK_OUT second, and two different dates come out in hash order
CheckoutDatesToCheck(row, order) ==
    LET e == Strptime(row.end, ContractFormat)
        c == Strptime(row.checkout, CheckoutFormat)
    IN IF e = ParseError /\ c = ParseError THEN <<>>
       ELSE IF c = ParseError \/ c = e THEN <<e>>
       ELSE IF e = ParseError THEN <<c>>
       ELSE IF order = "end_first" THEN <<e, c>> ELSE <<c, e>>

\* part B had it appended an item for every date in range, without looking for a
\* Check-out item of the apartment in new_list
RECURSIVE CheckoutItems_WithoutDedup(_, _, _, _, _, _, _)
CheckoutItems_WithoutDedup(row, dates, start_date, end_date, trans_list, last_ut_date, new_list) ==
    IF dates = <<>> THEN new_list
    ELSE LET checkout_date == Head(dates)
             item == WithContext(
                        _create_todo_item(row.code,
                            Reason("Check-out on", DayMonth(checkout_date), <<>>, FALSE),
                            IsoFormat(checkout_date), row.realtor, "Check-out", 0),
                        trans_list, last_ut_date)
         IN CheckoutItems_WithoutDedup(row, Tail(dates), start_date, end_date, trans_list,
                last_ut_date,
                IF InWindow(checkout_date, start_date, end_date)
                THEN Append(new_list, item) ELSE new_list)

\* part B: the check-out items appended after new_list, one date at a time
RECURSIVE CheckoutItems(_, _, _, _, _, _, _)
CheckoutItems(row, dates, start_date, end_date, trans_list, last_ut_date, new_list) ==
    IF dates = <<>> THEN new_list
    ELSE LET checkout_date == Head(dates)
             already == \E i \in 1..Len(new_list) :
                           new_list[i].ap_code = row.code /\ new_list[i].status = "Check-out"
             item == WithContext(
                        _create_todo_item(row.code,
                            Reason("Check-out on", DayMonth(checkout_date), <<>>, FALSE),
                            IsoFormat(checkout_date), row.realtor, "Check-out", 0),
                        trans_list, last_ut_date)
         IN CheckoutItems(row, Tail(dates), start_date, end_date, trans_list, last_ut_date,
                IF InWindow(checkout_date, start_date, end_date) /\ ~already
                THEN Append(new_list, item) ELSE new_list)

\* the pass over a row had it not skipped the apartments whose latest event is a
\* check-out
DeriveRow_WithoutExclusion(data, row, start_date, end_date, order, new_list) ==
    LET trans_list == Transactions(data, row.code)
        last_ut_date == LastUtDate(data, row.code)
    IN IF row.code = "" THEN new_list
       ELSE CheckoutItems(row, CheckoutDatesToCheck(row, order), start_date, end_date,
                trans_list, last_ut_date,
                new_list \o RentItems(row, start_date, end_date, trans_list, last_ut_date))

\* one pass of the loop over the APARTMENTS rows: new_list after the row
DeriveRow(data, row, start_date, end_date, order, new_list) ==
    LET trans_list == Transactions(data, row.code)
        last_trans_type == IF trans_list = <<>> THEN "None" ELSE trans_list[1].type
        last_ut_date == LastUtDate(data, row.code)
    IN IF row.code = "" THEN new_list
       ELSE IF last_trans_type # "None" /\ last_trans_type # ""
               /\ Contains("CHECK-OUT", Upper(last_trans_type)) THEN new_list
       ELSE CheckoutItems(row, CheckoutDatesToCheck(row, order), start_date, end_date,
                trans_list, last_ut_date,
                new_list \o RentItems(row, start_date, end_date, trans_list, last_ut_date))

\* new_list after the rows from index i on
RECURSIVE DeriveRows(_, _, _, _, _, _)
DeriveRows(data, i, start_date, end_date, order, new_list) ==
    IF i > Len(data.APARTMENTS) THEN new_list
    ELSE DeriveRows(data, i + 1, start_date, end_date, order,
             DeriveRow(data, data.APARTMENTS[i], start_date, end_date, order, new_list))

\* new_list: every derived item, in row order
NewList(data, start_date, end_date, order) ==
    DeriveRows(data, 1, start_date, end_date, order, <<>>)

-----------------------------------------------------------------------------
(* Object identity.  Two items may hold the same 'checked' dict object      *)
(* (generate_list hands the old item's dict to the new item), and an update *)
(* through one of them shows in the other.  checked_id names the object;    *)
(* ids are renumbered in order of first appearance after every call, and a  *)
(* serialised item carries id 0.                                            *)

Ids(list) == {list[i].checked_id : i \in 1..Len(list)}

NormalizeIds(todo, trash) ==
    LET all == todo \o trash
        FirstPos(id) == CHOOSE i \in 1..Len(all) :
                            all[i].checked_id = id /\ \A j \in 1..(i - 1) : all[j].checked_id # id
        NewId(id) == Cardinality({FirstPos(j) : j \in {k \in Ids(all) : FirstPos(k) <= FirstPos(id)}})
        Renumber(list) == [i \in 1..Len(list) |->
                              [list[i] EXCEPT !.checked_id = NewId(list[i].checked_id)]]
    IN [todo_list |-> Renumber(todo), trash_bin |-> Renumber(trash)]

\* json.dump of a list of items: the values, without object identity
Serialize(list) == [i \in 1..Len(list) |-> [list[i] EXCEPT !.checked_id = 0]]

\* json.load of the two lists of a document: every item gets its own objects
LoadLists(doc) ==
    LET n == Len(doc.todo_list)
    IN NormalizeIds(
         [i \in 1..n |-> [doc.todo_list[i] EXCEPT !.checked_id = 0 - i]],
         [i \in 1..Len(doc.trash_bin) |-> [doc.trash_bin[i] EXCEPT !.checked_id = 0 - (n + i)]])

\* the value of an item, as == on two dicts compares it
Fields(item) == [item EXCEPT !.checked_id = 0]

-----------------------------------------------------------------------------
(* generate_list: merging new_list with the old state. *)

\* old_state[key]: a dict keeps the value stored last under a key
OldItem(old_list, key) ==
    old_list[CHOOSE i \in 1..Len(old_list) :
                /\ ItemKey(old_list[i]) = key
                /\ \A j \in (i + 1)..Len(old_list) : ItemKey(old_list[j]) # key]

HasKey(list, key) == \E i \in 1..Len(list) : ItemKey(list[i]) = key

\* old_state.items(): one entry per key, in the order the keys were first stored
OldStateItems(old_list) ==
    LET firsts == SelectSeq([i \in 1..Len(old_list) |-> i],
                     LAMBDA i : \A j \in 1..(i - 1) : ItemKey(old_list[j]) # ItemKey(old_list[i]))
    IN [n \in 1..Len(firsts) |-> OldItem(old_list, ItemKey(old_list[firsts[n]]))]

\* a derived item after the first merge loop: the old item's checked, note and
\* check_time when its key is in old_state
MergeItem(old_list, new_item, i) ==
    IF HasKey(old_list, ItemKey(new_item))
    THEN LET old_item == OldItem(old_list, ItemKey(new_item))
         IN [new_item EXCEPT !.checked = old_item.checked,
                             !.checked_id = old_item.checked_id,
                             !.note = old_item.note,
                             !.check_time = old_item.check_time]
    ELSE [new_item EXCEPT !.checked_id = 0 - i]

\* the test of the second merge loop: a manual old item is appended when
\* final_list holds it no item of its apartment
KeepsManual(old_item, final_list) ==
    /\ old_item.manual
    /\ ~\E i \in 1..Len(final_list) : final_list[i].ap_code = old_item.ap_code

\* the second merge loop over old_state.items()
RECURSIVE AppendManual(_, _)
AppendManual(old_items, final_list) ==
    IF old_items = <<>> THEN final_list
    ELSE AppendManual(Tail(old_items),
             IF KeepsManual(Head(old_items), final_list)
             THEN Append(final_list, Head(old_items)) ELSE final_list)

\* final_list had it started as a copy of the old list instead of []
FinalList_StartsFromOldList(old_list, new_list) ==
    AppendManual(OldStateItems(old_list),
                 old_list \o [i \in 1..Len(new_list) |-> MergeItem(old_list, new_list[i], i)])

\* final_list
FinalList(old_list, new_list) ==
    AppendManual(OldStateItems(old_list),
                 [i \in 1..Len(new_list) |-> MergeItem(old_list, new_list[i], i)])

-----------------------------------------------------------------------------
(* The manager.  A store is the record of the manager's fields and of the   *)
(* two files it reads and writes; every method is an operator from a store  *)
(* and the method's arguments to the store it leaves.  drive_ok says        *)
(* whether the Drive API answers during the call.                           *)

FileId == "id"

\* _find_file_id: the cached id, or the id the Drive query finds
_find_file_id(st, drive_ok) ==
    IF st.file_id # "None" THEN st.file_id
    ELSE IF drive_ok /\ st.drive_doc.exists THEN FileId
    ELSE "None"

Document(st) ==
    [exists |-> TRUE, todo_list |-> Serialize(st.todo_list), trash_bin |-> Serialize(st.trash_bin)]

\* _save_to_local_cache, with the timestamp of now
_save_to_local_cache(st) ==
    [st EXCEPT !.cache = [exists |-> TRUE, fresh |-> TRUE,
                          todo_list |-> Serialize(st.todo_list),
                          trash_bin |-> Serialize(st.trash_bin)]]

\* save_list_to_drive had its except branch put the lists of the document back
save_list_to_drive_RollsBack(st, drive_ok) ==
    IF drive_ok
    THEN _save_to_local_cache([st EXCEPT !.drive_doc = Document(st),
                                         !.file_id = FileId,
                                         !.is_dirty = FALSE])
    ELSE IF st.drive_doc.exists
    THEN [st EXCEPT !.todo_list = LoadLists(st.drive_doc).todo_list,
                    !.trash_bin = LoadLists(st.drive_doc).trash_bin]
    ELSE [st EXCEPT !.todo_list = <<>>, !.trash_bin = <<>>]

\* what save_list_to_drive returns: it has no return statement
SaveResult(st, drive_ok) == "None"

\* save_list_to_drive: update or create the document, clear is_dirty, write the
\* cache; a failing Drive call leaves everything as it was
save_list_to_drive(st, drive_ok) ==
    IF drive_ok
    THEN _save_to_local_cache([st EXCEPT !.drive_doc = Document(st),
                                         !.file_id = FileId,
                                         !.is_dirty = FALSE])
    ELSE st

\* _load_list_from_drive had it read the cache file without looking at its age
_load_list_from_drive_ReadsStaleCache(st, drive_ok) ==
    IF st.cache.exists
    THEN LET l == LoadLists(st.cache)
         IN [st |-> [st EXCEPT !.todo_list = l.todo_list, !.trash_bin = l.trash_bin],
             ret |-> l.todo_list]
    ELSE IF _find_file_id(st, drive_ok) = "None"
    THEN [st |-> st, ret |-> <<>>]
    ELSE IF ~drive_ok
    THEN [st |-> st, ret |-> <<>>]
    ELSE LET l == LoadLists(st.drive_doc)
             st1 == [st EXCEPT !.file_id = FileId,
                               !.todo_list = l.todo_list, !.trash_bin = l.trash_bin]
         IN [st |-> _save_to_local_cache(st1), ret |-> l.todo_list]

\* _load_list_from_drive: the store it leaves and the list it returns
_load_list_from_drive(st, drive_ok) ==
    IF st.cache.exists /\ st.cache.fresh
    THEN LET l == LoadLists(st.cache)
         IN [st |-> [st EXCEPT !.todo_list = l.todo_list, !.trash_bin = l.trash_bin],
             ret |-> l.todo_list]
    ELSE IF _find_file_id(st, drive_ok) = "None"
    THEN [st |-> st, ret |-> <<>>]
    ELSE IF ~drive_ok
    THEN [st |-> st, ret |-> <<>>]
    ELSE LET l == LoadLists(st.drive_doc)
             st1 == [st EXCEPT !.file_id = FileId,
                               !.todo_list = l.todo_list, !.trash_bin = l.trash_bin]
         IN [st |-> _save_to_local_cache(st1), ret |-> l.todo_list]

\* the cache file once time.time() - timestamp has reached 300 seconds
CacheExpires(st) ==
    IF st.cache.exists THEN [st EXCEPT !.cache.fresh = FALSE] ELSE st

\* the first component of the tuple reload_from_drive returns
ReloadResult(st, drive_ok) == "True"

\* reload_from_drive
reload_from_drive(st, drive_ok) ==
    LET r == _load_list_from_drive(st, drive_ok)
    IN [r.st EXCEPT !.todo_list = _sort_list(r.ret)]

\* __init__ of a new process: the files are those the last process left; file_id
\* starts as None, the list is what _load_list_from_drive returns, and trash_bin
\* and is_dirty are assigned after the load
__init__(st, drive_ok) ==
    LET r == _load_list_from_drive([st EXCEPT !.file_id = "None",
                                              !.todo_list = <<>>,
                                              !.trash_bin = <<>>,
                                              !.is_dirty = FALSE], drive_ok)
    IN [r.st EXCEPT !.todo_list = r.ret, !.trash_bin = <<>>, !.is_dirty = FALSE]

\* what generate_list does before it touches the list: "return" when a sheet or
\* a MO_DATA column is missing, "raise" when list.index fails on the UT_DATA or
\* APARTMENTS header, "run" otherwise
GenerateOutcome(data) ==
    IF ~(RequiredSheets \subseteq data.sheets) THEN "return"
    ELSE IF data.missing_columns \cap MoColumns # {} THEN "return"
    ELSE IF data.missing_columns \cap (UtColumns \cup ApColumns) # {} THEN "raise"
    ELSE "run"

\* the list generate_list assigns to self.todo_list, sorted
GeneratedList(old_list, data, start_date, end_date, order) ==
    _sort_list(FinalList(old_list, NewList(data, start_date, end_date, order)))

\* generate_list
generate_list(st, data, start_date, end_date, order, drive_ok) ==
    IF GenerateOutcome(data) # "run" THEN st
    ELSE LET n == NormalizeIds(GeneratedList(st.todo_list, data, start_date, end_date, order),
                               st.trash_bin)
         IN save_list_to_drive([st EXCEPT !.todo_list = n.todo_list, !.trash_bin = n.trash_bin],
                               drive_ok)

-----------------------------------------------------------------------------
(* The methods that edit the list. *)

\* the lookup had it compared ap_code alone
FindItem_ByCodeOnly(list, ap_code, due_date) ==
    LET hits == {i \in 1..Len(list) : list[i].ap_code = ap_code}
    IN IF hits = {} THEN 0 ELSE CHOOSE i \in hits : \A j \in hits : i <= j

\* the first index of list whose item has this ap_code and due_date, 0 for none
FindItem(list, ap_code, due_date) ==
    LET hits == {i \in 1..Len(list) : list[i].ap_code = ap_code /\ list[i].due_date = due_date}
    IN IF hits = {} THEN 0 ELSE CHOOSE i \in hits : \A j \in hits : i <= j

RemoveAt(list, i) == SubSeq(list, 1, i - 1) \o SubSeq(list, i + 1, Len(list))

\* the None of get_apartment_data
NoRow == ApRow("<None>", EmptyCell, EmptyCell, "<None>", EmptyCell)

\* sheet_manager.get_apartment_data(ap_code): the first APARTMENTS row of the code
\* (compared stripped and upper-cased), None when there is none
get_apartment_data(data, ap_code) ==
    LET hits == {i \in 1..Len(data.APARTMENTS) : data.APARTMENTS[i].code = ap_code}
    IN IF "APARTMENTS" \notin data.sheets \/ "AP CODE" \in data.missing_columns \/ hits = {}
       THEN NoRow
       ELSE data.APARTMENTS[CHOOSE i \in hits : \A j \in hits : i <= j]

\* the item add_manual_item builds: realtor and context are looked up, each left
\* at its default when its sheet or a column of it is missing
ManualItem(data, ap_code, due_date) ==
    LET apartment_data == get_apartment_data(data, ap_code)
        realtor_name == IF apartment_data = NoRow \/ "REALTOR" \in data.missing_columns
                        THEN "Unknown" ELSE apartment_data.realtor
        reason == IF due_date = NoDate THEN Reason("Manually added", <<>>, <<>>, FALSE)
                  ELSE Reason("Manually added - Due on", DayMonth(due_date), <<>>, FALSE)
        item == [_create_todo_item(ap_code, reason, IsoOrNone(due_date), realtor_name, "Pending", 0)
                    EXCEPT !.manual = TRUE]
        all_trans == IF /\ "MO_DATA" \in data.sheets
                        /\ data.missing_columns \cap (MoColumns \ {"SPECIFIC MONEY TASK"}) = {}
                     THEN AllTrans(data, ap_code) ELSE <<>>
        last_ut_date == IF "UT_DATA" \in data.sheets /\ data.missing_columns \cap UtColumns = {}
                        THEN LastUtDate(data, ap_code) ELSE NoDate
    IN [item EXCEPT
          !.last_transaction_date = IF all_trans = <<>> THEN None ELSE IsoFormat(all_trans[1].date),
          !.last_transaction_type = IF all_trans = <<>> THEN "None" ELSE all_trans[1].type,
          !.last_ut_reading_date = IsoOrNone(last_ut_date)]

\* add_manual_item had it not looked for the key in the list
add_manual_item_WithoutDuplicateTest(st, data, ap_code, due_date, drive_ok) ==
    LET n == NormalizeIds(_sort_list(Append(st.todo_list, ManualItem(data, ap_code, due_date))),
                          st.trash_bin)
    IN [st |-> save_list_to_drive(
                   [st EXCEPT !.todo_list = n.todo_list, !.trash_bin = n.trash_bin], drive_ok),
        ret |-> "True"]

\* add_manual_item after its duplicate test: build the item, append it, sort, save
AppendManualItem(st, data, ap_code, due_date, drive_ok) ==
    LET n == NormalizeIds(_sort_list(Append(st.todo_list, ManualItem(data, ap_code, due_date))),
                          st.trash_bin)
    IN save_list_to_drive([st EXCEPT !.todo_list = n.todo_list, !.trash_bin = n.trash_bin],
                          drive_ok)

\* add_manual_item: ret is the first component of the tuple it returns
add_manual_item(st, data, ap_code, due_date, drive_ok) ==
    IF HasKey(st.todo_list, <<ap_code>> \o OrEmpty(IsoOrNone(due_date)))
    THEN [st |-> st, ret |-> "False"]
    ELSE [st |-> AppendManualItem(st, data, ap_code, due_date, drive_ok), ret |-> "True"]

\* remove_item
remove_item(st, ap_code, due_date, drive_ok) ==
    LET i == FindItem(st.todo_list, ap_code, due_date)
    IN IF i = 0 THEN [st |-> st, ret |-> "False"]
       ELSE LET n == NormalizeIds(RemoveAt(st.todo_list, i), Append(st.trash_bin, st.todo_list[i]))
            IN [st |-> save_list_to_drive(
                           [st EXCEPT !.todo_list = n.todo_list, !.trash_bin = n.trash_bin], drive_ok),
                ret |-> "True"]

\* restore_item
restore_item(st, ap_code, due_date, drive_ok) ==
    LET i == FindItem(st.trash_bin, ap_code, due_date)
    IN IF i = 0 THEN [st |-> st, ret |-> "False"]
       ELSE LET n == NormalizeIds(_sort_list(Append(st.todo_list, st.trash_bin[i])),
                                  RemoveAt(st.trash_bin, i))
            IN [st |-> save_list_to_drive(
                           [st EXCEPT !.todo_list = n.todo_list, !.trash_bin = n.trash_bin], drive_ok),
                ret |-> "True"]

\* item['checked'][checkbox_name] = is_checked on the dict object cid: every item
\* of the list that holds the object shows the new value
SetChecked(list, cid, checkbox_name, is_checked) ==
    [i \in 1..Len(list) |->
        IF list[i].checked_id = cid
        THEN [list[i] EXCEPT !.checked[checkbox_name] = is_checked]
        ELSE list[i]]

\* update_checkbox
update_checkbox(st, ap_code, checkbox_name, is_checked, due_date) ==
    LET i == FindItem(st.todo_list, ap_code, due_date)
    IN IF i = 0 THEN st
       ELSE LET cid == st.todo_list[i].checked_id
            IN [st EXCEPT !.todo_list = SetChecked(st.todo_list, cid, checkbox_name, is_checked),
                          !.trash_bin = SetChecked(st.trash_bin, cid, checkbox_name, is_checked)]

\* update_note had it set is_dirty as update_check_time does
update_note_SetsDirty(st, ap_code, new_note_text, due_date) ==
    LET i == FindItem(st.todo_list, ap_code, due_date)
    IN IF i = 0 THEN st
       ELSE [st EXCEPT !.todo_list[i].note = new_note_text, !.is_dirty = TRUE]

\* update_note
update_note(st, ap_code, new_note_text, due_date) ==
    LET i == FindItem(st.todo_list, ap_code, due_date)
    IN IF i = 0 THEN st
       ELSE [st EXCEPT !.todo_list[i].note = new_note_text]

\* update_check_time, now being datetime.now(BUCHAREST_TZ).isoformat()
update_check_time(st, ap_code, due_date, now) ==
    LET i == FindItem(st.todo_list, ap_code, due_date)
    IN IF i = 0 THEN st
       ELSE [st EXCEPT !.todo_list[i].check_time = now, !.is_dirty = TRUE]

-----------------------------------------------------------------------------
(* The inputs of the calls. *)

Codes == {"A1", "A2"}
Notes == {"", "called"}
Timestamps == {<<"2024-06-10T09:00">>}
CheckboxInputs == {"TELEGRAM"}

\* the dates the dashboard passes: a due date of add_manual_item, the due_date
\* strings of the other calls, and the windows of generate_list
InputDates == {NoDate, DateOf(6, 15)}
DueDates == {None, IsoFormat(DateOf(6, 15)), IsoFormat(DateOf(6, 20)), IsoFormat(DateOf(7, 15))}
Windows == {<<DateOf(6, 1), DateOf(6, 30)>>, <<DateOf(6, 16), DateOf(7, 15)>>}

\* the sheets of the store specification: apartment A1 pays on the 15th, its
\* contract ends on 15 June and its check-out is on 20 June; the rent of June was
\* collected on 10 June; A2 is no apartment of the sheet
StoreSheets ==
    {Sheets(<<ApRow("A1", DateCell(ContractFormat, DateOf(1, 15)),
                    DateCell(ContractFormat, DateOf(6, 15)), "R1",
                    DateCell(CheckoutFormat, DateOf(6, 20)))>>,
            <<MoRow("A1", DateCell("%d/%m/%Y", DateOf(1, 15)), "Check-in", ""),
              MoRow("A1", DateCell("%Y-%m-%d", DateOf(6, 10)), "UTILITIES", "Rent collect June")>>,
            <<UtRow("A1", DateCell("%d/%m/%Y", DateOf(6, 1)))>>)}

HashOrders == {"end_first", "checkout_first"}

-----------------------------------------------------------------------------
(* The state machine: one action per method of the manager. *)

Store == [todo_list |-> todo_list, trash_bin |-> trash_bin, is_dirty |-> is_dirty,
          file_id |-> file_id, drive_doc |-> drive_doc, cache |-> cache]

\* the sessions of the dashboard that call the one manager of the process
Sessions == {"s1", "s2"}

\* no call of the session is under way
NoCall == <<>>

\* the manager's fields and the files become those of st, by the call op(args)
StoreBecomes(st, op, args) ==
    /\ nops < MaxOps
    /\ todo_list' = st.todo_list
    /\ trash_bin' = st.trash_bin
    /\ is_dirty' = st.is_dirty
    /\ file_id' = st.file_id
    /\ drive_doc' = st.drive_doc
    /\ cache' = st.cache
    /\ nops' = IF st = Store THEN nops ELSE nops + 1
    /\ last' = IF st = Store THEN last ELSE [op |-> op, args |-> args]
    /\ UNCHANGED <<all_data, hash_order>>

\* a call that runs from its first line to its last with no other call in between
Becomes(st, op, args) == StoreBecomes(st, op, args) /\ UNCHANGED pending

\* TodoManager(sheet_manager) on a machine with no todo_list.json in Drive and no
\* cache file
InitStore ==
    /\ todo_list = <<>>
    /\ trash_bin = <<>>
    /\ is_dirty = FALSE
    /\ file_id = "None"
    /\ drive_doc = NoFile
    /\ cache = NoFile
    /\ nops = 0
    /\ last = [op |-> "__init__", args |-> <<>>]
    /\ pending = [s \in Sessions |-> NoCall]

Init ==
    /\ InitStore
    /\ all_data \in StoreSheets
    /\ hash_order \in HashOrders

GenerateList(start_date, end_date, drive_ok) ==
    Becomes(generate_list(Store, all_data, start_date, end_date, hash_order, drive_ok),
            "generate_list", <<start_date, end_date>>)

AddManualItem(ap_code, due_date, drive_ok) ==
    LET r == add_manual_item(Store, all_data, ap_code, due_date, drive_ok)
    IN Becomes(r.st, "add_manual_item", <<ap_code, due_date>>)

RemoveItem(ap_code, due_date, drive_ok) ==
    LET r == remove_item(Store, ap_code, due_date, drive_ok)
    IN Becomes(r.st, "remove_item", <<ap_code, due_date>>)

RestoreItem(ap_code, due_date, drive_ok) ==
    LET r == restore_item(Store, ap_code, due_date, drive_ok)
    IN Becomes(r.st, "restore_item", <<ap_code, due_date>>)

UpdateCheckbox(ap_code, checkbox_name, is_checked, due_date) ==
    Becomes(update_checkbox(Store, ap_code, checkbox_name, is_checked, due_date),
            "update_checkbox", <<ap_code, checkbox_name, is_checked, due_date>>)

UpdateNote(ap_code, new_note_text, due_date) ==
    Becomes(update_note(Store, ap_code, new_note_text, due_date), "update_note",
            <<ap_code, new_note_text, due_date>>)

UpdateCheckTime(ap_code, due_date, now) ==
    Becomes(update_check_time(Store, ap_code, due_date, now), "update_check_time",
            <<ap_code, due_date, now>>)

\* expired: five minutes have passed since the cache file was written
ReloadFromDrive(drive_ok, expired) ==
    Becomes(reload_from_drive(IF expired THEN CacheExpires(Store) ELSE Store, drive_ok),
            "reload_from_drive", <<drive_ok, expired>>)

SaveListToDrive(drive_ok) ==
    Becomes(save_list_to_drive(Store, drive_ok), "save_list_to_drive", <<>>)

Next ==
    \/ \E w \in Windows, ok \in BOOLEAN : GenerateList(w[1], w[2], ok)
    \/ \E c \in Codes, d \in InputDates, ok \in BOOLEAN : AddManualItem(c, d, ok)
    \/ \E c \in Codes, d \in DueDates, ok \in BOOLEAN : RemoveItem(c, d, ok)
    \/ \E c \in Codes, d \in DueDates, ok \in BOOLEAN : RestoreItem(c, d, ok)
    \/ \E c \in Codes, d \in DueDates, n \in CheckboxInputs, b \in BOOLEAN : UpdateCheckbox(c, n, b, d)
    \/ \E c \in Codes, d \in DueDates, t \in Notes : UpdateNote(c, t, d)
    \/ \E c \in Codes, d \in DueDates, t \in Timestamps : UpdateCheckTime(c, d, t)
    \/ \E ok \in BOOLEAN, expired \in BOOLEAN : ReloadFromDrive(ok, expired)
    \/ \E ok \in BOOLEAN : SaveListToDrive(ok)

Spec == Init /\ [][Next]_vars

-----------------------------------------------------------------------------
(* The sort specification: _sort_list on any list of up to MaxSortLen items. *)

MaxSortLen == 3

SortDueDates == {None, IsoFormat(DateOf(6, 20)), IsoFormat(DateOf(7, 5))}

\* nothing ticked, one box ticked, all four ticked
SortChecked == {[c \in CheckboxNames |-> FALSE],
                [c \in CheckboxNames |-> c = "TELEGRAM"],
                [c \in CheckboxNames |-> TRUE]}

SortItems ==
    {[_create_todo_item("A1", Reason("Manually added", <<>>, <<>>, FALSE), d, "R1", "Pending", 0)
         EXCEPT !.checked = c, !.manual = TRUE] : d \in SortDueDates, c \in SortChecked}

RECURSIVE ListsUpTo(_, _)
ListsUpTo(items, n) ==
    IF n = 0 THEN {<<>>}
    ELSE LET shorter == ListsUpTo(items, n - 1)
         IN shorter \cup {Append(l, x) : l \in shorter, x \in items}

InitSort ==
    /\ trash_bin = <<>>
    /\ is_dirty = FALSE
    /\ file_id = "None"
    /\ drive_doc = NoFile
    /\ cache = NoFile
    /\ nops = 0
    /\ last = [op |-> "__init__", args |-> <<>>]
    /\ pending = [s \in Sessions |-> NoCall]
    /\ \E l \in ListsUpTo(SortItems, MaxSortLen) :
          todo_list = NormalizeIds([i \in 1..Len(l) |-> [l[i] EXCEPT !.checked_id = 0 - i]],
                                   <<>>).todo_list
    /\ all_data \in StoreSheets
    /\ hash_order = "end_first"

\* todo_manager._sort_list()
SortList ==
    /\ last.op = "__init__"
    /\ todo_list' = _sort_list(todo_list)
    /\ nops' = nops + 1
    /\ last' = [op |-> "_sort_list", args |-> <<>>]
    /\ UNCHANGED <<trash_bin, is_dirty, file_id, drive_doc, cache, all_data, hash_order,
                   pending>>

NextSort == SortList

SpecSort == InitSort /\ [][NextSort]_vars

-----------------------------------------------------------------------------
(* The derivation specification: generate_list on an empty list, over the    *)
(* sheets of DeriveSheets.  Apartment A1 is the one row of APARTMENTS; its   *)
(* rent of June is due on the 15th when START is read.                       *)

MaxMoRows == 2

DeriveStarts == {DateCell(ContractFormat, DateOf(1, 15)),
                 DateCell(ContractFormat, DateOf(1, 31)),
                 DateCell(CheckoutFormat, DateOf(1, 15)),
                 TextCell}

\* events 10 and 9 days before 15 June, 5 and 6 days after it
DerivePaymentDates == {DateOf(6, 5), DateOf(6, 6), DateOf(6, 20), DateOf(6, 21)}

DeriveMoRows ==
    {MoRow("A1", DateCell("%Y-%m-%d", p), k[1], k[2]) :
        p \in DerivePaymentDates, k \in {<<"Check-in", "">>, <<"UTILITIES", "DEPOSIT">>}}
    \cup {MoRow("A1", DateCell("%d/%m/%Y", DateOf(6, 6)), "UTILITIES", "Rent collect June"),
          MoRow("A1", DateCell("%d/%m/%Y", DateOf(6, 21)), "Check-out done", ""),
          MoRow("A1", TextCell, "CHECK-IN", ""),
          MoRow("A2", DateCell("%Y-%m-%d", DateOf(6, 10)), "CHECK-IN", "")}

\* sheets for the rent tasks: no END and no CHECK_OUT
DeriveRentSheets ==
    {Sheets(<<ApRow("A1", start, EmptyCell, "R1", EmptyCell)>>, mo, <<>>) :
        start \in DeriveStarts, mo \in ListsUpTo(DeriveMoRows, MaxMoRows)}

\* END cells: none, 15 June, 20 June, 10 August, a text
DeriveEnds == {EmptyCell, TextCell} \cup
              {DateCell(ContractFormat, d) : d \in {DateOf(6, 15), DateOf(6, 20), DateOf(8, 10)}}

\* CHECK_OUT cells: none, a row too short for the cell, 10 June, 20 June, 10 August,
\* 20 June in the form of END
DeriveCheckouts == {EmptyCell, AbsentCell, DateCell(ContractFormat, DateOf(6, 20))} \cup
              {DateCell(CheckoutFormat, d) : d \in {DateOf(6, 10), DateOf(6, 20), DateOf(8, 10)}}

\* sheets for the check-out tasks; the apartment's one event, if any, is a check-out
DeriveCheckoutSheets ==
    {Sheets(<<ApRow("A1", start, end, "R1", checkout)>>, mo, <<>>) :
        start \in {DateCell(ContractFormat, DateOf(1, 15)), TextCell},
        end \in DeriveEnds, checkout \in DeriveCheckouts,
        mo \in {<<>>, <<MoRow("A1", DateCell("%d/%m/%Y", DateOf(6, 21)), "Check-out done", "")>>}}

DeriveSheets == DeriveRentSheets \cup DeriveCheckoutSheets

DeriveWindows == {<<DateOf(6, 1), DateOf(6, 30)>>, <<DateOf(6, 15), DateOf(7, 31)>>}

InitDerive ==
    /\ InitStore
    /\ all_data \in DeriveSheets
    /\ hash_order \in HashOrders

NextDerive == \E w \in DeriveWindows, ok \in BOOLEAN : GenerateList(w[1], w[2], ok)

SpecDerive == InitDerive /\ [][NextDerive]_vars

-----------------------------------------------------------------------------
(* The index specification: generate_list on an empty list, over two         *)
(* apartments and every MO_DATA sheet of up to MaxIndexRows rows.  Both      *)
(* apartments pay on the 15th; A1's contract ends on 20 June and A2's        *)
(* check-out is on 25 June.                                                  *)

MaxIndexRows == 3

\* events of A1 (a check-in; a check-out, a deposit and a check-out without its
\* last cell, all on 21 June; a check-out with a date that is no date), a check-out
\* without apartment code, and a check-in and a check-out of A2
IndexMoRows ==
    {MoRow("A1", DateCell("%Y-%m-%d", DateOf(6, 5)), "Check-in", ""),
     MoRow("A1", DateCell("%d/%m/%Y", DateOf(6, 21)), "Check-out done", ""),
     MoRow("A1", DateCell("%d/%m/%Y", DateOf(6, 21)), "UTILITIES", "DEPOSIT"),
     MoRow("A1", DateCell("%d/%m/%Y", DateOf(6, 21)), "CHECK-OUT", AbsentText),
     MoRow("A1", TextCell, "CHECK-OUT", ""),
     MoRow("", DateCell("%Y-%m-%d", DateOf(6, 25)), "CHECK-OUT", ""),
     MoRow("A2", DateCell("%Y-%m-%d", DateOf(6, 10)), "CHECK-IN", ""),
     MoRow("A2", DateCell("%Y-%m-%d", DateOf(6, 22)), "CHECK-OUT", "")}

IndexSheets ==
    {Sheets(<<ApRow("A1", DateCell(ContractFormat, DateOf(1, 15)),
                    DateCell(ContractFormat, DateOf(6, 20)), "R1", EmptyCell),
              ApRow("A2", DateCell(ContractFormat, DateOf(1, 15)),
                    EmptyCell, "R2", DateCell(CheckoutFormat, DateOf(6, 25)))>>,
            mo, <<>>) : mo \in ListsUpTo(IndexMoRows, MaxIndexRows)}

InitIndex ==
    /\ InitStore
    /\ all_data \in IndexSheets
    /\ hash_order \in HashOrders

\* the month of June
IndexWindows == {<<DateOf(6, 1), DateOf(6, 30)>>}

NextIndex == \E w \in IndexWindows, ok \in BOOLEAN : GenerateList(w[1], w[2], ok)

SpecIndex == InitIndex /\ [][NextIndex]_vars

-----------------------------------------------------------------------------
(* The sessions specification: the sessions of the dashboard run in threads  *)
(* of one process and call the one TodoManager that get_todo_manager hands   *)
(* to all of them; no lock is taken.  A thread may be suspended between the  *)
(* duplicate test of add_manual_item and its append, and another thread's    *)
(* call runs in between.                                                     *)

\* add_manual_item up to its duplicate test: the call returns failure when the key
\* is in the list, and goes on otherwise
AddManualTest(s, ap_code, due_date) ==
    /\ pending[s] = NoCall
    /\ ~HasKey(todo_list, <<ap_code>> \o OrEmpty(IsoOrNone(due_date)))
    /\ pending' = [pending EXCEPT ![s] = <<ap_code, due_date>>]
    /\ UNCHANGED <<todo_list, trash_bin, is_dirty, file_id, drive_doc, cache, all_data,
                   hash_order, nops, last>>

\* add_manual_item from the line after its duplicate test to its return
AddManualAppend(s, drive_ok) ==
    /\ pending[s] # NoCall
    /\ StoreBecomes(AppendManualItem(Store, all_data, pending[s][1], pending[s][2], drive_ok),
                    "add_manual_item", pending[s])
    /\ pending' = [pending EXCEPT ![s] = NoCall]

\* remove_item of a session while no add_manual_item of it is under way
SessionRemoveItem(s, ap_code, due_date, drive_ok) ==
    /\ pending[s] = NoCall
    /\ RemoveItem(ap_code, due_date, drive_ok)

NextSessions ==
    \/ \E s \in Sessions, c \in Codes, d \in InputDates : AddManualTest(s, c, d)
    \/ \E s \in Sessions, ok \in BOOLEAN : AddManualAppend(s, ok)
    \/ \E s \in Sessions, c \in Codes, d \in DueDates, ok \in BOOLEAN :
          SessionRemoveItem(s, c, d, ok)

SpecSessions == Init /\ [][NextSessions]_vars

-----------------------------------------------------------------------------
(* The restart specification: the process ends and a new one constructs its  *)
(* TodoManager from the files the old one left; between restarts tasks are   *)
(* added, removed and restored.                                              *)

\* TodoManager(sheet_manager) in a new process, whose set iteration order is order
Construct(drive_ok, expired, order) ==
    LET st == __init__(IF expired THEN CacheExpires(Store) ELSE Store, drive_ok)
        same == st = Store /\ order = hash_order
    IN /\ nops < MaxOps
       /\ todo_list' = st.todo_list
       /\ trash_bin' = st.trash_bin
       /\ is_dirty' = st.is_dirty
       /\ file_id' = st.file_id
       /\ drive_doc' = st.drive_doc
       /\ cache' = st.cache
       /\ hash_order' = order
       /\ nops' = IF same THEN nops ELSE nops + 1
       /\ last' = IF same THEN last ELSE [op |-> "__init__", args |-> <<drive_ok, expired>>]
       /\ UNCHANGED <<all_data, pending>>

NextRestart ==
    \/ \E c \in Codes, d \in InputDates, ok \in BOOLEAN : AddManualItem(c, d, ok)
    \/ \E c \in Codes, d \in DueDates, ok \in BOOLEAN : RemoveItem(c, d, ok)
    \/ \E c \in Codes, d \in DueDates, ok \in BOOLEAN : RestoreItem(c, d, ok)
    \/ \E ok \in BOOLEAN, expired \in BOOLEAN, order \in HashOrders : Construct(ok, expired, order)

SpecRestart == Init /\ [][NextRestart]_vars

-----------------------------------------------------------------------------
(* The tables specification: generate_list and add_manual_item when          *)
(* sheet_manager.all_data lacks one of the three sheets or a header lacks    *)
(* one of the columns that are looked up.                                    *)

\* the sheets of the store specification, whole, without one sheet, or without one
\* column
TableSheets ==
    {[d EXCEPT !.sheets = RequiredSheets \ absent, !.missing_columns = missing] :
        d \in StoreSheets,
        absent \in {{}} \cup {{n} : n \in RequiredSheets},
        missing \in {{}} \cup {{c} : c \in MoColumns \cup UtColumns \cup ApColumns}}

InitTables ==
    /\ InitStore
    /\ all_data \in TableSheets
    /\ hash_order \in HashOrders

NextTables ==
    \/ \E w \in Windows, ok \in BOOLEAN : GenerateList(w[1], w[2], ok)
    \/ \E c \in Codes, d \in InputDates, ok \in BOOLEAN : AddManualItem(c, d, ok)

SpecTables == InitTables /\ [][NextTables]_vars

-----------------------------------------------------------------------------
(* The reload specification: reload_from_drive in a session whose document   *)
(* in Drive was last written by any session.  todo_list.json in the root of  *)
(* the Drive is written by every TodoManager of the account: those of other  *)
(* processes of the dashboard and the one of server_module.py.  The cache    *)
(* file holds what this process last saved or loaded.                        *)

MaxDocLen == 2

ReloadItems ==
    {[_create_todo_item(c, Reason("Manually added", <<>>, <<>>, FALSE), None, "Unknown",
                        "Pending", 0) EXCEPT !.manual = TRUE] : c \in Codes}

ReloadLists == ListsUpTo(ReloadItems, MaxDocLen)

FileOf(list) == [exists |-> TRUE, todo_list |-> Serialize(list), trash_bin |-> <<>>]

CacheOf(list, fresh) ==
    [exists |-> TRUE, fresh |-> fresh, todo_list |-> Serialize(list), trash_bin |-> <<>>]

InitReload ==
    /\ \E l \in ReloadLists :
          todo_list = LoadLists(FileOf(_sort_list(l))).todo_list
    /\ trash_bin = <<>>
    /\ is_dirty = FALSE
    /\ drive_doc \in {NoFile} \cup {FileOf(l) : l \in ReloadLists}
    /\ file_id \in {"None", FileId}
    /\ file_id = FileId => drive_doc.exists
    /\ cache \in {NoFile} \cup {CacheOf(l, f) : l \in ReloadLists, f \in BOOLEAN}
    /\ nops = 0
    /\ last = [op |-> "__init__", args |-> <<>>]
    /\ pending = [s \in Sessions |-> NoCall]
    /\ all_data \in StoreSheets
    /\ hash_order = "end_first"

NextReload == \E ok \in BOOLEAN, expired \in BOOLEAN : ReloadFromDrive(ok, expired)

SpecReload == InitReload /\ [][NextReload]_vars

-----------------------------------------------------------------------------
(* The properties.  A task's key is the pair of its apartment code and its   *)
(* due date.                                                                 *)

TaskKey(t) == <<t.ap_code, t.due_date>>

UniqueKeys(list) ==
    \A i, j \in 1..Len(list) : i # j => TaskKey(list[i]) # TaskKey(list[j])

\* the keys generate_list derives from the sheets for the window args
DerivedKeys(args) ==
    {TaskKey(t) : t \in {NewList(all_data, args[1], args[2], hash_order)[i] :
                            i \in 1..Len(NewList(all_data, args[1], args[2], hash_order))}}

\* this step is a call of op that changed the manager or a file
EffectiveStep(op) == last'.op = op /\ nops' = nops + 1

\* this step is a call of generate_list that changed the manager or a file
GenerateStep == last'.op = "generate_list" /\ nops' = nops + 1

\* the fields generate_list is to carry over
Mutable(t) == <<t.note, t.checked, t.check_time>>

\* how many items of the list have these fields
Count(list, fields) == Cardinality({i \in 1..Len(list) : Fields(list[i]) = fields})

\* C1: after generate_list the active list holds no two tasks with the same key.
C1_GenerateLeavesUniqueKeys ==
    last.op = "generate_list" => UniqueKeys(todo_list)

\* C2: a manual task whose key the derivation does not produce is still in the
\* active list after generate_list, whatever other tasks its apartment has.
C2_ManualTaskSurvivesGenerate ==
    [][GenerateStep =>
         \A i \in 1..Len(todo_list) :
            (todo_list[i].manual /\ TaskKey(todo_list[i]) \notin DerivedKeys(last'.args))
            => \E j \in 1..Len(todo_list') :
                  todo_list'[j].manual /\ TaskKey(todo_list'[j]) = TaskKey(todo_list[i])]_vars

\* C3: a task whose key is in the active list before and after generate_list has
\* the note, the checkboxes and the check_time after it that it had before.
C3_GeneratePreservesMutableFields ==
    [][GenerateStep =>
         \A i \in 1..Len(todo_list) :
            (\E j \in 1..Len(todo_list') : TaskKey(todo_list'[j]) = TaskKey(todo_list[i]))
            => \E j \in 1..Len(todo_list') :
                  /\ TaskKey(todo_list'[j]) = TaskKey(todo_list[i])
                  /\ Mutable(todo_list'[j]) = Mutable(todo_list[i])]_vars

\* the keys of a list with the fields generate_list is to carry over, in list order
KeysAndMutable(list) == [i \in 1..Len(list) |-> <<TaskKey(list[i]), Mutable(list[i])>>]

\* C4: right after generate_list, a second generate_list with the same window on
\* the same sheets yields the same active list: the same keys, and for each key the
\* same note, checkboxes and check_time.
C4_GenerateTwiceIsIdempotent ==
    last.op = "generate_list" =>
        \A ok \in BOOLEAN :
            KeysAndMutable(generate_list(Store, all_data, last.args[1], last.args[2],
                                         hash_order, ok).todo_list)
            = KeysAndMutable(todo_list)

\* C4 witness: generate_list has run on a list that held a manual task and a noted
\* derived task, and both are in its result
C4_Witness ==
    /\ last.op = "generate_list"
    /\ \E i, j \in 1..Len(todo_list) :
          /\ todo_list[i].manual
          /\ ~todo_list[j].manual /\ todo_list[j].note = "called"

\* C5: in every reachable state the active list holds no two tasks with the same key.
C5_UniqueKeysAlways == UniqueKeys(todo_list)

\* this step is a call of remove_item that found its task
RemoveStep == last'.op = "remove_item" /\ nops' = nops + 1

\* a restore_item step right after a remove_item with the same arguments
RestoreAfterRemove ==
    /\ last.op = "remove_item"
    /\ last'.op = "restore_item" /\ nops' = nops + 1
    /\ last'.args = last.args

\* C8: remove_item moves its task from the active list to the end of the trash, and
\* a restore_item with the same key that follows it puts that task back in the
\* active list with every field as it was at removal.
C8_RestoreReturnsRemovedTask ==
    [][/\ RemoveStep =>
            LET removed == Fields(todo_list[FindItem(todo_list, last'.args[1], last'.args[2])])
            IN /\ Count(todo_list', removed) = Count(todo_list, removed) - 1
               /\ trash_bin' # <<>>
               /\ Fields(trash_bin'[Len(trash_bin')]) = removed
       /\ RestoreAfterRemove =>
            LET removed == Fields(trash_bin[Len(trash_bin)])
            IN Count(todo_list', removed) = Count(todo_list, removed) + 1]_vars

\* a task is complete when all four checkboxes are true
IsComplete(t) ==
    t.checked["TELEGRAM"] /\ t.checked["EMAIL"] /\ t.checked["UT_DATA"] /\ t.checked["WRITE"]

IsDated(t) == t.due_date # None

\* the calendar date a due_date string names
DueDate(t) == DateOf(t.due_date[2], t.due_date[3])

\* C6: after _sort_list no complete task precedes a task that is not complete, and
\* of two dated tasks that are not complete the one due earlier comes first.
C6_SortOrdersByCompletionThenDate ==
    last.op = "_sort_list" =>
        \A i, j \in 1..Len(todo_list) :
            i < j =>
               /\ ~(IsComplete(todo_list[i]) /\ ~IsComplete(todo_list[j]))
               /\ (/\ ~IsComplete(todo_list[i]) /\ ~IsComplete(todo_list[j])
                   /\ IsDated(todo_list[i]) /\ IsDated(todo_list[j]))
                  => DueDate(todo_list[i]) <= DueDate(todo_list[j])

\* C6 witness: _sort_list has moved a July task that is not complete behind a June
\* one, and a complete task behind both
C6_Witness ==
    /\ last.op = "_sort_list"
    /\ Len(todo_list) = 3
    /\ ~IsComplete(todo_list[1]) /\ todo_list[1].due_date = IsoFormat(DateOf(6, 20))
    /\ ~IsComplete(todo_list[2]) /\ todo_list[2].due_date = IsoFormat(DateOf(7, 5))
    /\ IsComplete(todo_list[3])

\* C7: after _sort_list, among the tasks that are not complete, no dated task
\* precedes a task without a due date.
C7_SortPutsUndatedFirst ==
    last.op = "_sort_list" =>
        \A i, j \in 1..Len(todo_list) :
            (i < j /\ ~IsComplete(todo_list[i]) /\ ~IsComplete(todo_list[j]))
            => ~(IsDated(todo_list[i]) /\ ~IsDated(todo_list[j]))

\* the dates of the MO_DATA events of an apartment that are classified as rent:
\* TYPE OF MONEY TASK contains CHECK-IN or SPECIFIC MONEY TASK contains RENT
\* COLLECT, in any case of letters
RentPaymentDates(ap_code) ==
    {ParseFirst(all_data.MO_DATA[i].date, MoDateFormats) :
        i \in {k \in 1..Len(all_data.MO_DATA) :
                 /\ all_data.MO_DATA[k].code = ap_code
                 /\ \/ Upper(all_data.MO_DATA[k].type) \in {"CHECK-IN"}
                    \/ Upper(all_data.MO_DATA[k].specific) \in {"RENT COLLECT", "RENT COLLECT JUNE"}}}
    \ {ParseError}

IsRentTask(t) == t.status \in {"Paid", "Unpaid"}

Qualifies(row) ==
    /\ row.code # ""
    /\ Strptime(row.start, ContractFormat) # ParseError
    /\ LET t == Transactions(all_data, row.code)
       IN t = <<>> \/ ~Contains("CHECK-OUT", Upper(t[1].type))

NotExcluded(row) ==
    /\ row.code # ""
    /\ LET t == Transactions(all_data, row.code)
       IN t = <<>> \/ ~Contains("CHECK-OUT", Upper(t[1].type))

\* the dates the END and CHECK_OUT cells of a row name, ParseError for none
EndDate(row) == Strptime(row.end, ContractFormat)
CheckoutDate(row) == Strptime(row.checkout, CheckoutFormat)

\* the date lies in the window of the last generate_list
InLastWindow(d) == d # ParseError /\ last.args[1] <= d /\ d <= last.args[2]

\* the Check-out tasks of an apartment in the active list
CheckoutTasks(ap_code) ==
    {i \in 1..Len(todo_list) :
        todo_list[i].ap_code = ap_code /\ todo_list[i].status = "Check-out"}

\* C11: generate_list derives at most one Check-out task per apartment, and exactly
\* one for an apartment that is not excluded and whose CHECK_OUT date or END date
\* lies in the window, also when both lie in it on different dates.
C11_OneCheckoutTaskPerApartment ==
    last.op = "generate_list" =>
        \A r \in 1..Len(all_data.APARTMENTS) :
            LET row == all_data.APARTMENTS[r]
            IN /\ Cardinality(CheckoutTasks(row.code)) <= 1
               /\ (/\ NotExcluded(row)
                   /\ InLastWindow(CheckoutDate(row)) \/ InLastWindow(EndDate(row)))
                  => Cardinality(CheckoutTasks(row.code)) = 1

\* C11 witness: END and CHECK_OUT lie in the window on different dates and
\* generate_list has derived one Check-out task
C11_Witness ==
    /\ last.op = "generate_list"
    /\ LET row == all_data.APARTMENTS[1]
       IN /\ InLastWindow(CheckoutDate(row)) /\ InLastWindow(EndDate(row))
          /\ CheckoutDate(row) # EndDate(row)
          /\ Cardinality(CheckoutTasks(row.code)) = 1

\* C12: the Check-out task is due on the CHECK_OUT date when that date lies in the
\* window, also when END lies in it on another date; it is due on the END date only
\* when CHECK_OUT is absent, unreadable or outside the window.
C12_CheckoutDatePreferred ==
    last.op = "generate_list" =>
        \A r \in 1..Len(all_data.APARTMENTS) :
            LET row == all_data.APARTMENTS[r]
            IN \A i \in CheckoutTasks(row.code) :
                  todo_list[i].due_date =
                     IF InLastWindow(CheckoutDate(row)) THEN IsoFormat(CheckoutDate(row))
                     ELSE IsoFormat(EndDate(row))

\* the list holds a task with this key
HoldsKey(list, ap_code, due_date) ==
    \E i \in 1..Len(list) : TaskKey(list[i]) = <<ap_code, due_date>>

C14_AddManualRejectsUnknownApartment ==
    last.op = "add_manual_item" =>
        \E r \in 1..Len(all_data.APARTMENTS) : all_data.APARTMENTS[r].code = last.args[1]

\* C15: with a key that matches no task of the active list, update_checkbox,
\* update_note and update_check_time change nothing and remove_item returns failure
\* and changes no list; with a key that matches no task of the trash, restore_item
\* returns failure and changes no list.
C15_UnmatchedKeyChangesNothing ==
    \A c \in Codes, d \in DueDates :
        /\ ~HoldsKey(todo_list, c, d) =>
              /\ \A n \in CheckboxInputs, b \in BOOLEAN :
                    update_checkbox(Store, c, n, b, d) = Store
              /\ \A t \in Notes : update_note(Store, c, t, d) = Store
              /\ \A t \in Timestamps : update_check_time(Store, c, d, t) = Store
              /\ \A ok \in BOOLEAN :
                    LET r == remove_item(Store, c, d, ok)
                    IN /\ r.ret = "False"
                       /\ r.st.todo_list = todo_list /\ r.st.trash_bin = trash_bin
        /\ ~HoldsKey(trash_bin, c, d) =>
              \A ok \in BOOLEAN :
                 LET r == restore_item(Store, c, d, ok)
                 IN /\ r.ret = "False"
                    /\ r.st.todo_list = todo_list /\ r.st.trash_bin = trash_bin

\* C15 witness: the active list and the trash each hold a task of an apartment, and
\* neither holds the apartment's undated key
C15_Witness ==
    \E c \in Codes :
        /\ \E i \in 1..Len(todo_list) : todo_list[i].ap_code = c
        /\ \E i \in 1..Len(trash_bin) : trash_bin[i].ap_code = c
        /\ ~HoldsKey(todo_list, c, None)
        /\ ~HoldsKey(trash_bin, c, None)

\* the check_time of every task of the list
CheckTimes(list) == [i \in 1..Len(list) |-> list[i].check_time]

\* the document in Drive holds these two lists
Persisted(doc, todo, trash) ==
    /\ doc.exists
    /\ doc.todo_list = [i \in 1..Len(todo) |-> Fields(todo[i])]
    /\ doc.trash_bin = [i \in 1..Len(trash) |-> Fields(trash[i])]

\* C16: is_dirty becomes true only in an update_check_time that finds its task, and
\* such a call leaves it true; update_checkbox and update_note leave is_dirty and
\* every check_time as they are; is_dirty becomes false only in a step that
\* persists the lists, and a failing save_list_to_drive leaves it as it is.
C16_DirtySetByCheckTimeClearedByPersist ==
    [][/\ (is_dirty' /\ ~is_dirty) => EffectiveStep("update_check_time")
       /\ EffectiveStep("update_check_time") => is_dirty'
       /\ (EffectiveStep("update_checkbox") \/ EffectiveStep("update_note"))
          => /\ is_dirty' = is_dirty
             /\ CheckTimes(todo_list') = CheckTimes(todo_list)
       /\ (~is_dirty' /\ is_dirty) => Persisted(drive_doc', todo_list', trash_bin')
       /\ save_list_to_drive(Store, FALSE).is_dirty = is_dirty]_vars

\* C16 witness: a task has a check_time, so update_check_time has set is_dirty, and
\* a save_list_to_drive that succeeded has cleared it
C16_Witness ==
    /\ last.op = "save_list_to_drive"
    /\ ~is_dirty
    /\ \E i \in 1..Len(todo_list) : todo_list[i].check_time # None

\* the calls that are to act on the lists in memory only
InMemoryCalls == {"generate_list", "add_manual_item", "remove_item", "restore_item",
                  "update_checkbox", "update_note", "update_check_time"}

\* C17: generate_list, add_manual_item, remove_item, restore_item, update_checkbox,
\* update_note and update_check_time leave the document in Drive as it is.
C17_OnlySaveChangesDocument ==
    [][(\E op \in InMemoryCalls : EffectiveStep(op)) => drive_doc' = drive_doc]_vars

\* C18: a save_list_to_drive whose Drive call fails leaves the active list, the
\* trash and the document as they are, and a save_list_to_drive that succeeds after
\* it persists these same lists.
C18_FailedSaveKeepsMemoryAndDocument ==
    LET failed == save_list_to_drive(Store, FALSE)
        retried == save_list_to_drive(failed, TRUE)
    IN /\ failed.todo_list = todo_list
       /\ failed.trash_bin = trash_bin
       /\ failed.drive_doc = drive_doc
       /\ retried.todo_list = todo_list
       /\ retried.trash_bin = trash_bin
       /\ Persisted(retried.drive_doc, todo_list, trash_bin)

\* C18 witness: the save inside add_manual_item has failed: the new task is in the
\* active list and the document still holds the lists saved before
C18_Witness ==
    /\ last.op = "add_manual_item"
    /\ drive_doc.exists
    /\ ~Persisted(drive_doc, todo_list, trash_bin)
    /\ HoldsKey(todo_list, last.args[1], IsoOrNone(last.args[2]))

\* C19: save_list_to_drive returns a failure result when the Drive call fails, and
\* reload_from_drive returns one when the document cannot be fetched (no fresh
\* cache and a failing Drive call).
C19_BoundaryFailuresAreReported ==
    /\ SaveResult(Store, FALSE) = "False"
    /\ ReloadResult(CacheExpires(Store), FALSE) = "False"

\* the two lists hold the same tasks, in any order
SameTasks(l1, l2) ==
    /\ Len(l1) = Len(l2)
    /\ \A i \in 1..Len(l1) : Count(l1, Fields(l1[i])) = Count(l2, Fields(l1[i]))

\* C20: after a reload_from_drive during which Drive answers, the active list holds
\* the tasks of the document in Drive, whatever the cache file holds.
C20_ReloadBypassesCache ==
    (last.op = "reload_from_drive" /\ last.args[1] /\ drive_doc.exists)
    => SameTasks(todo_list, drive_doc.todo_list)

\* the load of a new process gets no lists: the cache file is missing or older
\* than five minutes, and Drive holds no document or does not answer
CannotLoad(st, drive_ok) ==
    /\ ~(st.cache.exists /\ st.cache.fresh)
    /\ ~st.drive_doc.exists \/ ~drive_ok

\* C23: a TodoManager constructed when the document does not exist or cannot be
\* loaded has an empty active list and an empty trash (construction returns a
\* manager in every case).
C23_ConstructionWithoutDocumentIsEmpty ==
    \A ok \in BOOLEAN, expired \in BOOLEAN :
        LET st == IF expired THEN CacheExpires(Store) ELSE Store
        IN CannotLoad(st, ok) =>
              /\ __init__(st, ok).todo_list = <<>>
              /\ __init__(st, ok).trash_bin = <<>>

\* C23 witness: a process was started while Drive did not answer and the cache file
\* was old: the document holds tasks and the new manager holds none
C23_Witness ==
    /\ last.op = "__init__"
    /\ last.args = <<FALSE, TRUE>>
    /\ drive_doc.exists /\ drive_doc.todo_list # <<>>
    /\ cache.exists /\ cache.todo_list # <<>>
    /\ todo_list = <<>> /\ trash_bin = <<>>

\* C28: a TodoManager constructed while Drive answers, from a document that holds
\* the lists of the process before it, has the trash entries of that document.
C28_TrashSurvivesRestart ==
    [][(/\ EffectiveStep("__init__")
        /\ last'.args[1]
        /\ Persisted(drive_doc, todo_list, trash_bin))
       => Serialize(trash_bin') = drive_doc.trash_bin]_vars

\* a sheet is not loaded, or a header lacks a column generate_list looks up
TableIncomplete ==
    \/ ~(RequiredSheets \subseteq all_data.sheets)
    \/ all_data.missing_columns # {}

\* C21: when one of the three sheets is absent or a header lacks one of the columns
\* (CHECK_OUT included), generate_list returns to its caller without raising and
\* leaves the active list and the trash as they are.
C21_GenerateFailsSilently ==
    TableIncomplete =>
        /\ GenerateOutcome(all_data) = "return"
        /\ \A w \in Windows, ok \in BOOLEAN :
              LET st == generate_list(Store, all_data, w[1], w[2], hash_order, ok)
              IN st.todo_list = todo_list /\ st.trash_bin = trash_bin

\* C22: while the process runs, reload_from_drive and save_list_to_drive (also when
\* the Drive call fails) discard no edit held in memory: a call of either leaves
\* every task of the active list and of the trash with the fields it had.  (What
\* generate_list keeps of the edits is the subject of C2 and C3.)
C22_RunningProcessKeepsEdits ==
    [][(EffectiveStep("reload_from_drive") \/ EffectiveStep("save_list_to_drive"))
       => /\ SameTasks(todo_list', todo_list)
          /\ SameTasks(trash_bin', trash_bin)]_vars

\* the tasks of an apartment in the active list
TasksOf(ap_code) == {i \in 1..Len(todo_list) : todo_list[i].ap_code = ap_code}

\* the most recent transaction of the apartment is a check-out: the first event of
\* its list has CHECK-OUT in its type
LatestIsCheckout(row) ==
    LET t == Transactions(all_data, row.code)
    IN t # <<>> /\ Contains("CHECK-OUT", Upper(t[1].type))

\* the dates of the last window that fall on the day of the month of START
RentDueDates(row) ==
    {d \in last.args[1]..last.args[2] : DayOf[d] = DayOf[Strptime(row.start, ContractFormat)]}

\* the rent tasks and the Check-out task that the row's dates call for are there
Processed(row) ==
    /\ Strptime(row.start, ContractFormat) # ParseError =>
          \A d \in RentDueDates(row) :
             \E i \in TasksOf(row.code) :
                IsRentTask(todo_list[i]) /\ todo_list[i].due_date = IsoFormat(d)
    /\ (InLastWindow(CheckoutDate(row)) \/ InLastWindow(EndDate(row))) =>
          Cardinality(CheckoutTasks(row.code)) = 1

\* C24: after generate_list an apartment whose most recent transaction is a
\* check-out has no task in the derived list, neither rent nor Check-out, whatever
\* dates of it lie in the window; every other apartment has its tasks.
C24_CheckedOutApartmentIsSkipped ==
    last.op = "generate_list" =>
        \A r \in 1..Len(all_data.APARTMENTS) :
            LET row == all_data.APARTMENTS[r]
            IN IF LatestIsCheckout(row) THEN TasksOf(row.code) = {}
               ELSE Processed(row)

\* C24 witness: generate_list has skipped A1, whose check-out of 21 June follows its
\* check-in although its rent of 15 June and its END of 20 June lie in the window,
\* and has derived the rent task and the Check-out task of A2
C24_Witness ==
    /\ last.op = "generate_list"
    /\ last.args = <<DateOf(6, 1), DateOf(6, 30)>>
    /\ LatestIsCheckout(all_data.APARTMENTS[1])
    /\ Len(Transactions(all_data, "A1")) = 2
    /\ ~LatestIsCheckout(all_data.APARTMENTS[2])
    /\ TasksOf("A1") = {}
    /\ Cardinality(TasksOf("A2")) = 2

\* the rent tasks of the row are those of the dates of RentDueDates, one each
RentTasksAsDue(row) ==
    /\ \A d \in RentDueDates(row) :
          Cardinality({i \in TasksOf(row.code) :
                          IsRentTask(todo_list[i]) /\ todo_list[i].due_date = IsoFormat(d)}) = 1
    /\ \A i \in TasksOf(row.code) :
          IsRentTask(todo_list[i]) => DueDate(todo_list[i]) \in RentDueDates(row)

\* the Check-out tasks of the row are: one due on d when d lies in the window, none
\* otherwise
CheckoutTaskFor(row, d) ==
    IF InLastWindow(d)
    THEN /\ Cardinality(CheckoutTasks(row.code)) = 1
         /\ \A i \in CheckoutTasks(row.code) : todo_list[i].due_date = IsoFormat(d)
    ELSE CheckoutTasks(row.code) = {}

\* C26: a date that cannot be read switches off its own branch only.  For an
\* apartment that is not excluded: without a readable START there is no rent task
\* and the Check-out task is there when END or CHECK_OUT lies in the window; without
\* a readable CHECK_OUT (absent, empty or in another form) the rent tasks are those
\* of START and the Check-out task is that of END; without a readable END the rent
\* tasks are those of START and the Check-out task is that of CHECK_OUT.
C26_UnreadableDateSkipsOwnBranchOnly ==
    last.op = "generate_list" =>
        \A r \in 1..Len(all_data.APARTMENTS) :
            LET row == all_data.APARTMENTS[r]
                start == Strptime(row.start, ContractFormat)
            IN NotExcluded(row) =>
                 /\ start = ParseError =>
                       /\ \A i \in TasksOf(row.code) : ~IsRentTask(todo_list[i])
                       /\ (InLastWindow(CheckoutDate(row)) \/ InLastWindow(EndDate(row)))
                          => Cardinality(CheckoutTasks(row.code)) = 1
                 /\ CheckoutDate(row) = ParseError =>
                       /\ start # ParseError => RentTasksAsDue(row)
                       /\ CheckoutTaskFor(row, EndDate(row))
                 /\ EndDate(row) = ParseError =>
                       /\ start # ParseError => RentTasksAsDue(row)
                       /\ CheckoutTaskFor(row, CheckoutDate(row))

\* C26 witness: START and END are texts that are no dates, CHECK_OUT is 20 June, and
\* generate_list has derived the Check-out task of 20 June and nothing else
C26_Witness ==
    /\ last.op = "generate_list"
    /\ all_data.APARTMENTS[1].start = TextCell
    /\ all_data.APARTMENTS[1].end = TextCell
    /\ Len(todo_list) = 1
    /\ todo_list[1].status = "Check-out"
    /\ todo_list[1].due_date = IsoFormat(DateOf(6, 20))

\* the rows of MO_DATA that carry the code and a date that one of the formats reads
DatedRows(ap_code) ==
    {k \in 1..Len(all_data.MO_DATA) :
        /\ all_data.MO_DATA[k].code = ap_code
        /\ ParseFirst(all_data.MO_DATA[k].date, MoDateFormats) # ParseError}

RowDate(k) == ParseFirst(all_data.MO_DATA[k].date, MoDateFormats)

\* the place of row k among the dated rows: later dates first, and of equal dates
\* the upper row first
RankOf(ap_code, k) ==
    1 + Cardinality({j \in DatedRows(ap_code) :
                        \/ RowDate(j) > RowDate(k)
                        \/ RowDate(j) = RowDate(k) /\ j < k})

\* C27: the transaction index generate_list builds holds, for each apartment code,
\* the rows of the apartment whose date is read and no others, later dates first and
\* rows of equal date in row order; the type and date that the derived tasks carry
\* as last transaction are those of the first of these rows (none when there is no
\* such row).
C27_IndexHoldsDatedRowsLatestFirst ==
    last.op = "generate_list" =>
        \A c \in Codes :
            LET t == Transactions(all_data, c)
            IN /\ Len(t) = Cardinality(DatedRows(c))
               /\ \A k \in DatedRows(c) :
                     /\ t[RankOf(c, k)].date = RowDate(k)
                     /\ t[RankOf(c, k)].type = all_data.MO_DATA[k].type
               /\ \A i \in TasksOf(c) :
                     IF DatedRows(c) = {}
                     THEN /\ todo_list[i].last_transaction_type = "None"
                          /\ todo_list[i].last_transaction_date = None
                     ELSE \E k \in DatedRows(c) :
                             /\ RankOf(c, k) = 1
                             /\ todo_list[i].last_transaction_type = all_data.MO_DATA[k].type
                             /\ todo_list[i].last_transaction_date = IsoFormat(RowDate(k))

\* the tasks of a list that have the key
WithKey(list, key) == {j \in 1..Len(list) : TaskKey(list[j]) = key}

\* C25: after generate_list the active list holds the derived tasks and manual tasks
\* of the old list, and nothing else: every derived key is there, an old task that
\* is not manual and whose key is not derived is gone, and for an old manual task
\* whose key is derived the list holds one task with the key, a derived one, with
\* the manual task's note, checkboxes and check_time.
C25_GenerateKeepsDerivedAndManualOnly ==
    [][GenerateStep =>
         LET derived == DerivedKeys(last'.args)
         IN /\ \A key \in derived : WithKey(todo_list', key) # {}
            /\ \A j \in 1..Len(todo_list') :
                  \/ ~todo_list'[j].manual /\ TaskKey(todo_list'[j]) \in derived
                  \/ /\ todo_list'[j].manual
                     /\ \E i \in 1..Len(todo_list) : Fields(todo_list[i]) = Fields(todo_list'[j])
            /\ \A i \in 1..Len(todo_list) :
                  LET key == TaskKey(todo_list[i])
                  IN /\ (~todo_list[i].manual /\ key \notin derived)
                        => \A j \in WithKey(todo_list', key) : todo_list'[j].manual
                     /\ (todo_list[i].manual /\ key \in derived)
                        => /\ Cardinality(WithKey(todo_list', key)) = 1
                           /\ \A j \in WithKey(todo_list', key) :
                                 /\ ~todo_list'[j].manual
                                 /\ Mutable(todo_list'[j]) = Mutable(todo_list[i])]_vars

\* how many tasks of the active list and of the trash have these fields
CountInBoth(todo, trash, fields) == Count(todo, fields) + Count(trash, fields)

\* the fields of the tasks of a list, in list order
FieldsOf(list) == [i \in 1..Len(list) |-> Fields(list[i])]

\* the calls that are to leave the trash alone
KeepTrashCalls == {"generate_list", "add_manual_item", "update_checkbox", "update_note",
                   "update_check_time"}

\* C29: remove_item takes one task out of the active list and puts it in the trash,
\* restore_item takes one task out of the trash and puts it in the active list, and
\* either leaves the tasks of the two lists taken together as they are; generate_list,
\* add_manual_item, update_checkbox, update_note and update_check_time leave the
\* trash as it is.
C29_SoftDeleteConservesTasks ==
    [][/\ (EffectiveStep("remove_item") \/ EffectiveStep("restore_item")) =>
             /\ Len(todo_list') + Len(trash_bin') = Len(todo_list) + Len(trash_bin)
             /\ Len(trash_bin') - Len(trash_bin)
                   = IF EffectiveStep("remove_item") THEN 1 ELSE 0 - 1
             /\ \A i \in 1..Len(todo_list) :
                   CountInBoth(todo_list', trash_bin', Fields(todo_list[i]))
                      = CountInBoth(todo_list, trash_bin, Fields(todo_list[i]))
             /\ \A i \in 1..Len(trash_bin) :
                   CountInBoth(todo_list', trash_bin', Fields(trash_bin[i]))
                      = CountInBoth(todo_list, trash_bin, Fields(trash_bin[i]))
       /\ (\E op \in KeepTrashCalls : EffectiveStep(op)) =>
             FieldsOf(trash_bin') = FieldsOf(trash_bin)]_vars

\* C30: with the sessions calling the one manager at the same time, an
\* add_manual_item that returns success leaves the active list with a single task
\* of its key, also when another session's add_manual_item for the key ran between
\* its duplicate test and its append.
C30_ConcurrentAddsKeepKeyUnique ==
    [][EffectiveStep("add_manual_item") =>
          Cardinality(WithKey(todo_list',
                              <<last'.args[1], IsoOrNone(last'.args[2])>>)) = 1]_vars

====
